---- MODULE Spec2Model ----
(***************************************************************************)
(* A model of the poker bot's command handlers (src/bot.py) driving one    *)
(* channel's Game.  The handlers of bot.py are translated from their code. *)
(* The Game class itself (module `game`, imported at bot.py:10) is not     *)
(* part of the sources at hand; its operations are modelled from the       *)
(* design document (sections 3 and 4) and carry the prefix Game_.          *)
(***************************************************************************)
EXTENDS Integers, Sequences, FiniteSets, TLC

\* ------------------------------------------------------------- bounds
\* Chat users that may send commands.
Users == {"ann", "bob", "cat"}

\* The channels the bot listens on (the keys of `games`).
Channels == {"table"}

\* Seats at the table: no join is sent once this many players sit.
MaxPlayers == 2

\* Largest chip stack the player store reports for a user.
MaxStack == 2

\* The shuffles considered: the ordered deck cut at 0..MaxCut.
MaxCut == 0

\* Largest value the set command is given.
MaxOption == 1

\* Largest chip stack at the tables of the betting-round specification.
RoundStack == 3

\* Longest line, and most lines, of the responses whose delivery is checked.
MaxLineLen == 3
MaxLines == 2

\* Most card images composed into one, and the longest side of one.
MaxCards == 3
MaxSide == 3

\* ------------------------------------------------ program constants
\* Cards in a deck (design document, section 3).
DeckSize == 52

\* The named numeric options of a game and their names.
GAME_OPTIONS == {"blind", "buy-in"}

\* The option deal reads the table's opening bet from.
MinimumOption == "buy-in"

\* The command prefix-stripped tokens on_message dispatches on.
commands == {"newgame", "join", "start", "deal", "call", "raise", "check",
             "fold", "set", "all-in", "stop"}
GameState == {"NO_GAME", "WAITING", "NO_HANDS", "BETTING", "SHOWDOWN"}

VARIABLES
    games,   \* channel -> Game, for the channels that have an entry
    last,    \* what the last handled event did (history, for observation)
    telling, \* channel -> the seat an on_message suspended in tell_hands
             \* reads next (0: no on_message is suspended there)
    msg,     \* the command and the response lines on_message is delivering
    sent,    \* what on_message has delivered of them
    picture  \* the card images on_message has opened, and the image it
             \* composes of them

vars == <<games, last, telling, msg, sent, picture>>

\* What the handlers leave alone: the suspended on_message and the delivery.
aside == <<telling, msg, sent, picture>>

\* The command word of a message, as the first token of its content.
CmdToken == <<"!">>

\* ------------------------------------------------------------ helpers
Min(a, b) == IF a < b THEN a ELSE b

\* One response line: its text and the number it quotes (0 when none).
Line(t) == [text |-> t, n |-> 0]
LineN(t, k) == [text |-> t, n |-> k]

\* The result of a handler: the game after it, the lines it returns, whether
\* it called into the Game's engine, and whether the command took effect.
Result(g, lines, fwd, ok) == [g |-> g, lines |-> lines, fwd |-> fwd, ok |-> ok]
Reject(g, lines) == Result(g, lines, FALSE, FALSE)

\* --------------------------------------------------- int(token) parsing
DigitChars == <<"0", "1", "2", "3", "4", "5", "6", "7", "8", "9">>
Digits == {DigitChars[i] : i \in 1..10}
DigitVal(c) == (CHOOSE i \in 1..10 : DigitChars[i] = c) - 1

\* A token is a sequence of characters.  int() accepts an optional sign
\* followed by at least one digit and raises ValueError otherwise.
TokenBody(t) == IF Len(t) > 0 /\ t[1] \in {"-", "+"} THEN Tail(t) ELSE t
IsIntToken(t) ==
    /\ Len(TokenBody(t)) > 0
    /\ \A i \in 1..Len(TokenBody(t)) : TokenBody(t)[i] \in Digits

RECURSIVE NatVal(_)
NatVal(s) ==
    IF s = <<>> THEN 0
    ELSE NatVal(SubSeq(s, 1, Len(s) - 1)) * 10 + DigitVal(s[Len(s)])

ParseInt(t) == IF t[1] = "-" THEN 0 - NatVal(TokenBody(t)) ELSE NatVal(TokenBody(t))

\* The text a chat user types for the integer n (|n| < 100).
RECURSIVE NatToken(_)
NatToken(n) ==
    IF n < 10 THEN <<DigitChars[n + 1]>>
    ELSE NatToken(n \div 10) \o <<DigitChars[(n % 10) + 1]>>
IntToken(n) == IF n < 0 THEN <<"-">> \o NatToken(0 - n) ELSE NatToken(n)

\* ------------------------------------------------------ Game (engine)
Player(user, stack) ==
    [user |-> user, max_bet |-> stack, cur_bet |-> 0, hand |-> {},
     folded |-> FALSE, all_in |-> FALSE]

\* Game(message): a fresh Game, in NO_GAME, with the default options.
NewGameObject ==
    [state |-> "NO_GAME", players |-> <<>>, dealer |-> 0, current |-> 0,
     pot |-> 0, cur_bet |-> 0, deck |-> <<>>, acted |-> {},
     options |-> [o \in GAME_OPTIONS |-> 1]]

Seats(g) == 1..Len(g.players)
Game_is_player(g, user) == \E i \in Seats(g) : g.players[i].user = user

\* new_game: a fresh session that waits for players; the options stay.
Game_new_game(g) ==
    [NewGameObject EXCEPT !.state = "WAITING", !.options = g.options]

\* add_player -> bool: fails if already present or the game is not WAITING.
Game_can_add(g, user) == g.state = "WAITING" /\ ~Game_is_player(g, user)
Game_add_player(g, user, stack) ==
    IF Game_can_add(g, user)
    THEN [g EXCEPT !.players = Append(@, Player(user, stack))]
    ELSE g

\* start: to NO_HANDS, the first seat becomes the dealer.
Game_start(g) ==
    Result([g EXCEPT !.state = "NO_HANDS", !.dealer = 1],
           <<Line("The game has begun!")>>, TRUE, TRUE)

\* The ordered deck cut at k: the shuffle outcomes the model considers.
Shuffled(k) == [i \in 1..DeckSize |-> ((i + k - 1) % DeckSize) + 1]

\* deal_hands: two cards per player off the front of a shuffled deck, the
\* per-round bets cleared, the table's bet set to the configured minimum,
\* to BETTING.  The seat after the dealer acts first.
Game_deal_hands(g, k) ==
    LET n == Len(g.players)
        deck == Shuffled(k)
    IN  Result([g EXCEPT
                  !.players = [i \in 1..n |->
                      [g.players[i] EXCEPT
                          !.hand = {deck[2 * i - 1], deck[2 * i]},
                          !.cur_bet = 0, !.folded = FALSE, !.all_in = FALSE]],
                  !.deck = SubSeq(deck, 2 * n + 1, DeckSize),
                  !.pot = 0,
                  !.cur_bet = g.options[MinimumOption],
                  !.current = (g.dealer % n) + 1,
                  !.acted = {},
                  !.state = "BETTING"],
               <<Line("The hands have been dealt!"), Line("hands")>>,
               TRUE, TRUE)

\* Players still contesting the pot, and those of them who can still bet.
NonFolded(g) == {i \in Seats(g) : ~g.players[i].folded}
Eligible(g) == {i \in Seats(g) : ~g.players[i].folded /\ ~g.players[i].all_in}

\* The next eligible seat after the current one, in seating order, wrapping.
NextSeat(g) ==
    LET n == Len(g.players)
        seat(d) == ((g.current - 1 + d) % n) + 1
        d == CHOOSE d \in 1..n :
                 /\ seat(d) \in Eligible(g)
                 /\ \A e \in 1..(d - 1) : seat(e) \notin Eligible(g)
    IN  seat(d)

\* Every player who can still bet has matched the table's bet, and has
\* acted since the last raise.
RoundComplete(g) ==
    /\ \A i \in Eligible(g) : g.players[i].cur_bet = g.cur_bet
    /\ Eligible(g) \subseteq g.acted

\* An advance_turn that moves to the next seat whoever sits there.
advance_turn_any_seat(g) ==
    IF Cardinality(Eligible(g)) < 2 \/ RoundComplete(g)
    THEN [g EXCEPT !.state = "SHOWDOWN"]
    ELSE [g EXCEPT !.current = (g.current % Len(g.players)) + 1]

\* advance_turn: to the next eligible seat, or round completion when fewer
\* than two eligible players remain or the round-completion rule holds.
advance_turn(g) ==
    IF Cardinality(Eligible(g)) < 2 \/ RoundComplete(g)
    THEN [g EXCEPT !.state = "SHOWDOWN"]
    ELSE [g EXCEPT !.current = NextSeat(g)]

\* A betting action outside a betting round: refused by the engine.
NotBetting(g) == Result(g, <<Line("There is no betting round")>>, TRUE, FALSE)

\* A contribution that adds the whole bet to the pot, not the difference to
\* what the player had already put in.
Contribute_whole_bet(g, bet) ==
    LET p == g.players[g.current]
    IN  [g EXCEPT !.players[g.current].cur_bet = bet,
                  !.players[g.current].all_in = (bet = p.max_bet),
                  !.pot = @ + bet]

\* The current player's contribution raised to `bet`: the delta goes to the
\* pot, and a contribution that equals the stack makes the player all-in.
Contribute(g, bet) ==
    LET p == g.players[g.current]
    IN  [g EXCEPT !.players[g.current].cur_bet = bet,
                  !.players[g.current].all_in = (bet = p.max_bet),
                  !.pot = @ + (bet - p.cur_bet)]

\* call: the actor's bet to the table's bet, capped at the stack.
Game_call(g) ==
    IF g.state # "BETTING" THEN NotBetting(g)
    ELSE LET bet == Min(g.cur_bet, g.players[g.current].max_bet)
             h == [Contribute(g, bet) EXCEPT !.acted = @ \cup {g.current}]
         IN  Result(advance_turn(h), <<LineN("calls", bet)>>, TRUE, TRUE)

\* check: legal only if the actor's bet equals the table's bet.
Game_check(g) ==
    IF g.state # "BETTING" THEN NotBetting(g)
    ELSE IF g.players[g.current].cur_bet # g.cur_bet
    THEN Result(g, <<Line("You can't check")>>, TRUE, FALSE)
    ELSE Result(advance_turn([g EXCEPT !.acted = @ \cup {g.current}]),
                <<Line("checks")>>, TRUE, TRUE)

\* raise_bet(amount): legal only if amount > 0 and the raised table bet is
\* within the actor's stack.
Game_raise_bet(g, amount) ==
    IF g.state # "BETTING" THEN NotBetting(g)
    ELSE IF ~(amount > 0 /\ g.cur_bet + amount <= g.players[g.current].max_bet)
    THEN Result(g, <<LineN("You can't raise by", amount)>>, TRUE, FALSE)
    ELSE LET h == [Contribute(g, g.cur_bet + amount) EXCEPT
                      !.cur_bet = g.cur_bet + amount,
                      !.acted = {g.current}]
         IN  Result(advance_turn(h), <<LineN("raises by", amount)>>, TRUE, TRUE)

\* fold: the actor leaves the hand; one non-folded player left ends the round.
Game_fold(g) ==
    IF g.state # "BETTING" THEN NotBetting(g)
    ELSE LET h == [g EXCEPT !.players[g.current].folded = TRUE,
                            !.acted = @ \cup {g.current}]
         IN  Result(IF Cardinality(NonFolded(h)) <= 1
                    THEN [h EXCEPT !.state = "SHOWDOWN"]
                    ELSE advance_turn(h),
                    <<Line("folds")>>, TRUE, TRUE)

\* all_in: the actor bets the whole stack, raising the table's bet if the
\* stack exceeds it.
Game_all_in(g) ==
    IF g.state # "BETTING" THEN NotBetting(g)
    ELSE LET stack == g.players[g.current].max_bet
             h == [Contribute(g, stack) EXCEPT
                      !.cur_bet = IF stack > g.cur_bet THEN stack ELSE @,
                      !.acted = IF stack > g.cur_bet THEN {g.current}
                                ELSE @ \cup {g.current}]
         IN  Result(advance_turn(h), <<LineN("is all in", stack)>>, TRUE, TRUE)

\* The strength of a hand: the ranks (1..13) of its cards added up.
CardRank(c) == ((c - 1) % 13) + 1
RECURSIVE HandValue(_)
HandValue(hand) ==
    IF hand = {} THEN 0
    ELSE LET c == CHOOSE c \in hand : TRUE
         IN  CardRank(c) + HandValue(hand \ {c})

\* The seats that may win the showdown: the best hands among the non-folded.
Winners(g) ==
    {i \in NonFolded(g) :
        \A j \in NonFolded(g) :
            HandValue(g.players[j].hand) <= HandValue(g.players[i].hand)}

\* The game after the showdown: back to NO_GAME, the players gone.
Game_reset(g) == [NewGameObject EXCEPT !.options = g.options]

\* ----------------------------------------------------------- handlers
\* A new_game without the state guard: it restarts a game in progress.
new_game_always(g, author, stack) ==
    Result([Game_add_player(Game_new_game(g), author, stack)
               EXCEPT !.state = "WAITING"],
           <<Line("A new game has been started"), Line("Message join")>>,
           TRUE, TRUE)

\* new_game(game, message)
new_game(g, author, stack) ==
    IF g.state = "NO_GAME"
    THEN Result([Game_add_player(Game_new_game(g), author, stack)
                    EXCEPT !.state = "WAITING"],
                <<Line("A new game has been started"), Line("Message join")>>,
                TRUE, TRUE)
    ELSE Reject(g, <<Line("There is already a game in progress")>>
                   \o (IF g.state = "WAITING"
                       THEN <<Line("It still hasn't started yet")>>
                       ELSE <<>>))

\* A stop_game that only listens to the players of the game.
stop_game_players_only(g, author) ==
    IF g.state # "NO_GAME" /\ Game_is_player(g, author)
    THEN Result([g EXCEPT !.state = "NO_GAME"],
                <<Line("Game has been stopped")>>, FALSE, TRUE)
    ELSE Reject(g, <<Line("There is no game in progress!")>>)

\* stop_game(game, message)
stop_game(g, author) ==
    IF g.state # "NO_GAME"
    THEN Result([g EXCEPT !.state = "NO_GAME"],
                <<Line("Game has been stopped")>>, FALSE, TRUE)
    ELSE Reject(g, <<Line("There is no game in progress!")>>)

\* A join_game that seats the requester without asking whether they sit.
join_game_twice(g, author, stack) ==
    IF g.state = "NO_GAME"
    THEN Reject(g, <<Line("No game has been started yet for you to join."),
                     Line("Message newgame")>>)
    ELSE IF g.state # "WAITING"
    THEN Reject(g, <<Line("The game is already in progress"),
                     Line("You're not allowed to join right now.")>>)
    ELSE Result([g EXCEPT !.players = Append(@, Player(author, stack))],
                <<Line("has joined the game!"), Line("Message join or start")>>,
                TRUE, TRUE)

\* join_game(game, message)
join_game(g, author, stack) ==
    IF g.state = "NO_GAME"
    THEN Reject(g, <<Line("No game has been started yet for you to join."),
                     Line("Message newgame")>>)
    ELSE IF g.state # "WAITING"
    THEN Reject(g, <<Line("The game is already in progress"),
                     Line("You're not allowed to join right now.")>>)
    ELSE IF Game_can_add(g, author)
    THEN Result(Game_add_player(g, author, stack),
                <<Line("has joined the game!"), Line("Message join or start")>>,
                TRUE, TRUE)
    ELSE Result(Game_add_player(g, author, stack),
                <<Line("You've already joined the game")>>, TRUE, FALSE)

\* A start_game without the "already started" guard: a player restarts a
\* game that is past WAITING.
start_game_restart(g, author) ==
    IF g.state = "NO_GAME"
    THEN Reject(g, <<Line("Message newgame")>>)
    ELSE IF ~Game_is_player(g, author)
    THEN Reject(g, <<Line("You are not a part of that game yet"),
                     Line("Please message join")>>)
    ELSE IF Len(g.players) < 0
    THEN Reject(g, <<Line("The game must have at least two players")>>)
    ELSE Game_start(g)

\* start_game(game, message)
start_game(g, author) ==
    IF g.state = "NO_GAME"
    THEN Reject(g, <<Line("Message newgame")>>)
    ELSE IF g.state # "WAITING"
    THEN Reject(g, <<Line("The game has already started"),
                     Line("It can't be started twice.")>>)
    ELSE IF ~Game_is_player(g, author)
    THEN Reject(g, <<Line("You are not a part of that game yet"),
                     Line("Please message join")>>)
    ELSE IF Len(g.players) < 0
    THEN Reject(g, <<Line("The game must have at least two players")>>)
    ELSE Game_start(g)

\* A deal_hand without the dealer check: any user may deal.
deal_hand_by_anyone(g, author, cut) ==
    IF g.state = "NO_GAME"
    THEN Reject(g, <<Line("No game has been started for you to deal.")>>)
    ELSE IF g.state = "WAITING"
    THEN Reject(g, <<Line("You can't deal because the game hasn't started yet.")>>)
    ELSE IF g.state # "NO_HANDS"
    THEN Reject(g, <<Line("The cards have already been dealt.")>>)
    ELSE Game_deal_hands(g, cut)

\* A deal_hand without the "already dealt" guard.
deal_hand_again(g, author, cut) ==
    IF g.state = "NO_GAME"
    THEN Reject(g, <<Line("No game has been started for you to deal.")>>)
    ELSE IF g.state = "WAITING"
    THEN Reject(g, <<Line("You can't deal because the game hasn't started yet.")>>)
    ELSE IF g.players[g.dealer].user # author
    THEN Reject(g, <<Line("You aren't the dealer"), Line("Please wait")>>)
    ELSE Game_deal_hands(g, cut)

\* deal_hand(game, message)
deal_hand(g, author, cut) ==
    IF g.state = "NO_GAME"
    THEN Reject(g, <<Line("No game has been started for you to deal.")>>)
    ELSE IF g.state = "WAITING"
    THEN Reject(g, <<Line("You can't deal because the game hasn't started yet.")>>)
    ELSE IF g.state # "NO_HANDS"
    THEN Reject(g, <<Line("The cards have already been dealt.")>>)
    ELSE IF g.players[g.dealer].user # author
    THEN Reject(g, <<Line("You aren't the dealer"), Line("Please wait")>>)
    ELSE Game_deal_hands(g, cut)

\* The guards the betting handlers share (bot.py repeats them per handler):
\* the lines of the rejection, or <<>> when the command passes them.
BettingGuard(g, author) ==
    IF g.state = "NO_GAME"
    THEN <<Line("No game has been started yet.")>>
    ELSE IF g.state = "WAITING"
    THEN <<Line("The game hasn't started yet, you can't")>>
    ELSE IF ~Game_is_player(g, author)
    THEN <<Line("You're not playing")>>
    ELSE IF g.state = "NO_HANDS"
    THEN <<Line("The hands haven't been dealt yet")>>
    ELSE IF g.players[g.current].user # author
    THEN <<Line("It's someone else's turn")>>
    ELSE <<>>

\* call_bet(game, message)
call_bet(g, author) ==
    IF BettingGuard(g, author) # <<>>
    THEN Reject(g, BettingGuard(g, author))
    ELSE Game_call(g)

\* A check that is also refused while nothing has been bet at the table.
check_needs_bet(g, author) ==
    IF BettingGuard(g, author) # <<>>
    THEN Reject(g, BettingGuard(g, author))
    ELSE IF g.players[g.current].cur_bet # g.cur_bet \/ g.cur_bet = 0
    THEN Reject(g, <<LineN("You can't check because you need to put in",
                           g.cur_bet - g.players[g.current].cur_bet)>>)
    ELSE Game_check(g)

\* check(game, message)
check(g, author) ==
    IF BettingGuard(g, author) # <<>>
    THEN Reject(g, BettingGuard(g, author))
    ELSE IF g.players[g.current].cur_bet # g.cur_bet
    THEN Reject(g, <<LineN("You can't check because you need to put in",
                           g.cur_bet - g.players[g.current].cur_bet)>>)
    ELSE Game_check(g)

\* A raise_bet whose stack check is off by one: a raise to exactly the
\* stack is refused.
raise_bet_off_by_one(g, author, tokens) ==
    IF BettingGuard(g, author) # <<>>
    THEN Reject(g, BettingGuard(g, author))
    ELSE IF Len(tokens) < 2
    THEN Reject(g, <<Line("Please follow raise with the amount")>>)
    ELSE IF ~IsIntToken(tokens[2])
    THEN Reject(g, <<Line("Please follow raise with an integer.")>>)
    ELSE IF g.cur_bet >= g.players[g.current].max_bet
    THEN Reject(g, <<LineN("You don't have enough money to raise the current bet of",
                           g.cur_bet)>>)
    ELSE IF g.cur_bet + ParseInt(tokens[2]) >= g.players[g.current].max_bet
    THEN Reject(g, <<LineN("You don't have enough money to raise by",
                           ParseInt(tokens[2])),
                     LineN("The most you can raise it by is",
                           g.players[g.current].max_bet - g.cur_bet)>>)
    ELSE Game_raise_bet(g, ParseInt(tokens[2]))

\* A raise_bet that reports the whole stack as the most one can raise by.
raise_bet_reports_stack(g, author, tokens) ==
    IF BettingGuard(g, author) # <<>>
    THEN Reject(g, BettingGuard(g, author))
    ELSE IF Len(tokens) < 2
    THEN Reject(g, <<Line("Please follow raise with the amount")>>)
    ELSE IF ~IsIntToken(tokens[2])
    THEN Reject(g, <<Line("Please follow raise with an integer.")>>)
    ELSE IF g.cur_bet >= g.players[g.current].max_bet
    THEN Reject(g, <<LineN("You don't have enough money to raise the current bet of",
                           g.cur_bet)>>)
    ELSE IF g.cur_bet + ParseInt(tokens[2]) > g.players[g.current].max_bet
    THEN Reject(g, <<LineN("You don't have enough money to raise by",
                           ParseInt(tokens[2])),
                     LineN("The most you can raise it by is",
                           g.players[g.current].max_bet)>>)
    ELSE Game_raise_bet(g, ParseInt(tokens[2]))

\* raise_bet(game, message); tokens = message.content.split()
raise_bet(g, author, tokens) ==
    IF BettingGuard(g, author) # <<>>
    THEN Reject(g, BettingGuard(g, author))
    ELSE IF Len(tokens) < 2
    THEN Reject(g, <<Line("Please follow raise with the amount")>>)
    ELSE IF ~IsIntToken(tokens[2])
    THEN Reject(g, <<Line("Please follow raise with an integer.")>>)
    ELSE IF g.cur_bet >= g.players[g.current].max_bet
    THEN Reject(g, <<LineN("You don't have enough money to raise the current bet of",
                           g.cur_bet)>>)
    ELSE IF g.cur_bet + ParseInt(tokens[2]) > g.players[g.current].max_bet
    THEN Reject(g, <<LineN("You don't have enough money to raise by",
                           ParseInt(tokens[2])),
                     LineN("The most you can raise it by is",
                           g.players[g.current].max_bet - g.cur_bet)>>)
    ELSE Game_raise_bet(g, ParseInt(tokens[2]))

\* A fold_hand without the turn check: any player may fold the current hand.
fold_hand_out_of_turn(g, author) ==
    IF g.state = "NO_GAME"
    THEN Reject(g, <<Line("No game has been started yet.")>>)
    ELSE IF g.state = "WAITING"
    THEN Reject(g, <<Line("The game hasn't started yet, you can't")>>)
    ELSE IF ~Game_is_player(g, author)
    THEN Reject(g, <<Line("You're not playing")>>)
    ELSE IF g.state = "NO_HANDS"
    THEN Reject(g, <<Line("The hands haven't been dealt yet")>>)
    ELSE Game_fold(g)

\* fold_hand(game, message)
fold_hand(g, author) ==
    IF BettingGuard(g, author) # <<>>
    THEN Reject(g, BettingGuard(g, author))
    ELSE Game_fold(g)

\* all_in(game, message)
all_in(g, author) ==
    IF BettingGuard(g, author) # <<>>
    THEN Reject(g, BettingGuard(g, author))
    ELSE Game_all_in(g)

\* A set_option without the sign check: a negative value is stored.
set_option_negative(g, author, tokens) ==
    IF Len(tokens) = 2
    THEN Reject(g, <<Line("You must specify a new value")>>)
    ELSE IF Len(tokens) = 1
    THEN Reject(g, <<Line("You must specify an option and value")>>)
    ELSE IF tokens[2] \notin {<<o>> : o \in GAME_OPTIONS}
    THEN Reject(g, <<Line("is not an option")>>)
    ELSE IF ~IsIntToken(tokens[3])
    THEN Reject(g, <<Line("must be set to an integer")>>)
    ELSE Result([g EXCEPT !.options[tokens[2][1]] = ParseInt(tokens[3])],
                <<LineN("is now set to", ParseInt(tokens[3]))>>, FALSE, TRUE)

\* set_option(game, message); tokens = message.content.split()
set_option(g, author, tokens) ==
    IF Len(tokens) = 2
    THEN Reject(g, <<Line("You must specify a new value")>>)
    ELSE IF Len(tokens) = 1
    THEN Reject(g, <<Line("You must specify an option and value")>>)
    ELSE IF tokens[2] \notin {<<o>> : o \in GAME_OPTIONS}
    THEN Reject(g, <<Line("is not an option")>>)
    ELSE IF ~IsIntToken(tokens[3])
    THEN Reject(g, <<Line("must be set to an integer")>>)
    ELSE IF ParseInt(tokens[3]) < 0
    THEN Reject(g, <<Line("Cannot set to a negative value!")>>)
    ELSE Result([g EXCEPT !.options[tokens[2][1]] = ParseInt(tokens[3])],
                <<LineN("is now set to", ParseInt(tokens[3]))>>, FALSE, TRUE)

\* --------------------------------------------------------- dispatcher
NoEvent == [cmd |-> "none", pre |-> "NO_GAME",
            fwd |-> FALSE, ok |-> FALSE, lines |-> <<>>]

\* games.setdefault(message.channel, Game(message))
GameOf(ch) == IF ch \in DOMAIN games THEN games[ch] ELSE NewGameObject

\* The synchronous part of on_message: fetch or create the channel's Game
\* and run the handler on it, which returns the lines to send.
Respond(ch, cmd, r) ==
    /\ games' = [c \in (DOMAIN games) \cup {ch} |->
                    IF c = ch THEN r.g ELSE games[c]]
    /\ last' = [cmd |-> cmd, pre |-> GameOf(ch).state,
                fwd |-> r.fwd, ok |-> r.ok, lines |-> r.lines]

\* on_message for a known command, taken as one step: fetch or create the
\* channel's Game, run the handler on it, and send the lines it returns.
Handle(ch, cmd, r) ==
    /\ Respond(ch, cmd, r)
    /\ UNCHANGED aside

NewGame(ch, u) ==
    /\ u \in Users
    /\ \E stack \in 1..MaxStack :
        Handle(ch, "newgame", new_game(GameOf(ch), u, stack))

StopGame(ch, u) ==
    /\ u \in Users
    /\ Handle(ch, "stop", stop_game(GameOf(ch), u))

JoinGame(ch, u) ==
    \E stack \in 1..MaxStack :
        /\ Game_can_add(GameOf(ch), u) => Len(GameOf(ch).players) < MaxPlayers
        /\ Handle(ch, "join", join_game(GameOf(ch), u, stack))

StartGame(ch, u) ==
    /\ u \in Users
    /\ Handle(ch, "start", start_game(GameOf(ch), u))

DealHand(ch, u) ==
    /\ u \in Users
    /\ \E cut \in 0..MaxCut :
        Handle(ch, "deal", deal_hand(GameOf(ch), u, cut))

CallBet(ch, u) ==
    /\ u \in Users
    /\ Handle(ch, "call", call_bet(GameOf(ch), u))

Check(ch, u) ==
    /\ u \in Users
    /\ Handle(ch, "check", check(GameOf(ch), u))

\* What follows the command word of a raise: nothing, or one token.
RaiseArgs ==
    {<<>>, <<<<"x">>>>, <<<<"+", "1">>>>}
        \cup {<<IntToken(n)>> : n \in (0 - 1)..(MaxStack + 1)}

RaiseBet(ch, u) ==
    /\ u \in Users
    /\ \E args \in RaiseArgs :
        Handle(ch, "raise", raise_bet(GameOf(ch), u, <<CmdToken>> \o args))

FoldHand(ch, u) ==
    /\ u \in Users
    /\ Handle(ch, "fold", fold_hand(GameOf(ch), u))

AllIn(ch, u) ==
    /\ u \in Users
    /\ Handle(ch, "all-in", all_in(GameOf(ch), u))

\* What follows the command word of a set: up to an option and a value.
SetArgs ==
    {<<>>, <<<<"blind">>>>, <<<<"ante">>, <<"1">>>>, <<<<"blind">>, <<"x">>>>,
     <<<<"blind">>, <<"-", "1">>>>}
        \cup {<<<<o>>, IntToken(n)>> : o \in GAME_OPTIONS, n \in 0..MaxOption}

SetOption(ch, u) ==
    /\ u \in Users
    /\ \E args \in SetArgs :
        Handle(ch, "set", set_option(GameOf(ch), u, <<CmdToken>> \o args))

\* The showdown the engine runs once a betting round has ended: the best
\* hand among the non-folded players wins the pot and the game resets.
Showdown(ch) ==
    /\ ch \in DOMAIN games
    /\ games[ch].state = "SHOWDOWN"
    /\ \E w \in Winners(games[ch]) :
        /\ games' = [games EXCEPT ![ch] = Game_reset(games[ch])]
        /\ last' = [cmd |-> "showdown", pre |-> "SHOWDOWN",
                    fwd |-> TRUE, ok |-> TRUE,
                    lines |-> <<LineN("wins the pot", games[ch].pot)>>]
    /\ UNCHANGED aside

\* An on_message that fetches or creates the channel's Game before it looks
\* the command up.
UnknownCommand_creates(ch, u) ==
    /\ games' = [c \in (DOMAIN games) \cup {ch} |->
                    IF c = ch THEN GameOf(ch) ELSE games[c]]
    /\ last' = [cmd |-> "bogus", pre |-> GameOf(ch).state,
                fwd |-> FALSE, ok |-> FALSE,
                lines |-> <<Line("is not a valid command.")>>]
    /\ UNCHANGED aside

\* on_message for a token that is no command: one fixed line, and no Game
\* is fetched or created.
UnknownCommand(ch, u) ==
    /\ games' = games
    /\ last' = [cmd |-> "bogus", pre |-> GameOf(ch).state,
                fwd |-> FALSE, ok |-> FALSE,
                lines |-> <<Line("is not a valid command.")>>]
    /\ UNCHANGED aside

\* No on_message is suspended and nothing is being delivered.
NoMessage == [command |-> "none", lines |-> <<>>]
NoDelivery ==
    [done |-> FALSE, locates |-> <<>>, lines |-> <<>>, image |-> FALSE,
     cards |-> <<>>]
NoPicture == [done |-> FALSE, images |-> <<>>, size |-> <<0, 0>>, pastes |-> <<>>]
AsideInit ==
    /\ telling = [c \in Channels |-> 0]
    /\ msg = NoMessage
    /\ sent = NoDelivery
    /\ picture = NoPicture

Init ==
    /\ games = [c \in {} |-> NewGameObject]
    /\ last = NoEvent
    /\ AsideInit

Next ==
    \E ch \in Channels, u \in Users :
        \/ NewGame(ch, u)
        \/ StopGame(ch, u)
        \/ JoinGame(ch, u)
        \/ StartGame(ch, u)
        \/ DealHand(ch, u)
        \/ CallBet(ch, u)
        \/ Check(ch, u)
        \/ RaiseBet(ch, u)
        \/ FoldHand(ch, u)
        \/ AllIn(ch, u)
        \/ SetOption(ch, u)
        \/ Showdown(ch)
        \/ UnknownCommand(ch, u)

Spec == Init /\ [][Next]_vars

\* ------------------------------------- on_message as a coroutine
\* on_message awaits game.tell_hands(client) after a deal that dealt, and
\* the client runs every event in a task of its own: while one on_message
\* is suspended there, the handlers of other messages run.
\*
\* on_message for deal, up to its first suspension: the handler, and when
\* it dealt, tell_hands reads the first seat's hand and awaits its sending.
\* (No deal deals while an earlier on_message is still telling hands.)
DealAndTell(ch, u) ==
    /\ u \in Users
    /\ \E cut \in 0..MaxCut :
        LET r == deal_hand(GameOf(ch), u, cut)
            dealt == r.lines[1].text = "The hands have been dealt!"
        IN  /\ dealt => telling[ch] = 0
            /\ Respond(ch, "deal", r)
            /\ telling' = IF dealt THEN [telling EXCEPT ![ch] = 2] ELSE telling
            /\ UNCHANGED <<msg, sent, picture>>

\* tell_hands resumes: it reads the next seat's hand from the channel's
\* Game as it is now and awaits its sending, or it finds no further seat
\* and returns, and on_message sends the lines of the deal.
TellHands(ch) ==
    /\ telling[ch] > 0
    /\ ch \in DOMAIN games
    /\ games' = games
    /\ IF telling[ch] <= Len(games[ch].players)
       THEN /\ telling' = [telling EXCEPT ![ch] = @ + 1]
            /\ last' = [cmd |-> "tell", pre |-> games[ch].state,
                        fwd |-> TRUE, ok |-> TRUE,
                        lines |-> <<LineN("Your hand", telling[ch])>>]
       ELSE /\ telling' = [telling EXCEPT ![ch] = 0]
            /\ last' = [cmd |-> "dealt", pre |-> games[ch].state,
                        fwd |-> TRUE, ok |-> TRUE,
                        lines |-> <<Line("The hands have been dealt!")>>]
    /\ UNCHANGED <<msg, sent, picture>>

\* Between two resumptions of a suspended tell_hands at most one other
\* message is handled on its channel.
Overtaking(ch) == telling[ch] > 0 => last.cmd \in {"deal", "tell"}

NextAsync ==
    \E ch \in Channels, u \in Users :
        \/ Overtaking(ch) /\ NewGame(ch, u)
        \/ Overtaking(ch) /\ StopGame(ch, u)
        \/ Overtaking(ch) /\ JoinGame(ch, u)
        \/ Overtaking(ch) /\ StartGame(ch, u)
        \/ Overtaking(ch) /\ DealAndTell(ch, u)
        \/ TellHands(ch)
        \/ Overtaking(ch) /\ CallBet(ch, u)
        \/ Overtaking(ch) /\ Check(ch, u)
        \/ Overtaking(ch) /\ RaiseBet(ch, u)
        \/ Overtaking(ch) /\ FoldHand(ch, u)
        \/ Overtaking(ch) /\ AllIn(ch, u)
        \/ Overtaking(ch) /\ SetOption(ch, u)
        \/ Overtaking(ch) /\ Showdown(ch)
        \/ Overtaking(ch) /\ UnknownCommand(ch, u)

SpecAsync == Init /\ [][NextAsync]_vars

\* ------------------------------------------------- one betting round
\* The players of the betting-round specification, in the order they joined.
RoundSeats == <<"ann", "bob", "cat">>

\* The roster after newgame by the first of RoundSeats and the joins of the
\* others, with the given stacks.
RECURSIVE Joined(_, _)
Joined(stacks, n) ==
    IF n = 0 THEN Game_new_game(NewGameObject)
    ELSE Game_add_player(Joined(stacks, n - 1), RoundSeats[n], stacks[n])

\* The table after newgame, the joins, set buy-in b, start and deal.
Dealt(stacks, b) ==
    Game_deal_hands(
        Game_start([Joined(stacks, Len(RoundSeats))
                       EXCEPT !.options[MinimumOption] = b]).g, 0).g

\* A betting round starts on a freshly dealt table of three.
InitRound ==
    /\ \E stacks \in [1..Len(RoundSeats) -> 1..RoundStack], b \in 0..MaxOption :
        games = [c \in Channels |-> Dealt(stacks, b)]
    /\ last = [cmd |-> "deal", pre |-> "NO_HANDS", fwd |-> TRUE, ok |-> TRUE,
               lines |-> <<Line("The hands have been dealt!"), Line("hands")>>]
    /\ AsideInit

\* The commands of a betting round, and the showdown that ends it.
NextRound ==
    \E ch \in Channels, u \in Users :
        \/ CallBet(ch, u)
        \/ Check(ch, u)
        \/ RaiseBet(ch, u)
        \/ FoldHand(ch, u)
        \/ AllIn(ch, u)
        \/ Showdown(ch)

SpecRound == InitRound /\ [][NextRound]_vars

\* ---------------------------------------------- delivery of the lines
\* Text is a sequence of characters; positions count from 0 as in Python.
prefix == "!"
Delimiter == "-"

\* The positions of the delimiter in `line`, in order: message.find('-')
\* and then message.find('-', i + 1) until it returns -1.
Positions(line) ==
    LET at == {i \in 1..Len(line) : line[i] = Delimiter}
    IN  [k \in 1..Cardinality(at) |->
            (CHOOSE i \in at : Cardinality({j \in at : j < i}) = k - 1) - 1]

\* find_card(messages), from the k-th message on: for each message that
\* holds the delimiter, its index and then the delimiter's positions in it.
RECURSIVE find_card_from(_, _)
find_card_from(messages, k) ==
    IF k > Len(messages) THEN <<>>
    ELSE (IF Positions(messages[k]) # <<>>
          THEN <<k - 1>> \o Positions(messages[k])
          ELSE <<>>)
             \o find_card_from(messages, k + 1)

\* find_card(messages)
find_card(messages) == find_card_from(messages, 1)

\* line[a:b] for 0 <= a, b.
Slice(line, a, b) ==
    IF a >= b \/ a >= Len(line) THEN <<>>
    ELSE SubSeq(line, a + 1, Min(b, Len(line)))

\* messages.pop(k)
Pop(messages, k) ==
    [i \in 1..(Len(messages) - 1) |->
        IF i <= k THEN messages[i] ELSE messages[i + 1]]

\* The delivery of on_message: with no delimiter in any line the lines are
\* sent as text; otherwise the card tokens are cut out of the line
\* locates[0], that line is removed, the rest is sent as text and the image
\* step runs on the cards.
deliver(messages) ==
    LET locates == find_card(messages)
    IN  IF locates = <<>>
        THEN [done |-> TRUE, locates |-> locates, lines |-> messages,
              image |-> FALSE, cards |-> <<>>]
        ELSE [done |-> TRUE, locates |-> locates,
              lines |-> Pop(messages, locates[1]),
              image |-> TRUE,
              cards |-> [i \in 1..(Len(locates) - 2) |->
                            Slice(messages[locates[1] + 1],
                                  locates[i + 1] + 1, locates[i + 2])]]

\* sorted(commands): the command names, in order.
CommandNames ==
    <<<<"a", "l", "l", "-", "i", "n">>,
      <<"b", "a", "l", "a", "n", "c", "e">>,
      <<"c", "a", "l", "l">>,
      <<"c", "h", "e", "c", "k">>,
      <<"d", "e", "a", "l">>,
      <<"d", "e", "a", "l", "e", "r">>,
      <<"f", "o", "l", "d">>,
      <<"h", "e", "l", "p">>,
      <<"j", "o", "i", "n">>,
      <<"n", "e", "w", "g", "a", "m", "e">>,
      <<"o", "p", "t", "i", "o", "n", "s">>,
      <<"r", "a", "i", "s", "e">>,
      <<"r", "e", "g">>,
      <<"s", "e", "t">>,
      <<"s", "t", "a", "r", "t">>,
      <<"s", "t", "o", "p">>>>

\* The description of a command, shortened to one character: none of the
\* descriptions holds the delimiter.
Description == <<"d">>

\* ' ' * count
RECURSIVE Spaces(_)
Spaces(count) == IF count <= 0 THEN <<>> ELSE <<" ">> \o Spaces(count - 1)

\* len(max(commands, key=len))
longest_command ==
    CHOOSE n \in 0..20 :
        /\ \E i \in 1..Len(CommandNames) : Len(CommandNames[i]) = n
        /\ \A i \in 1..Len(CommandNames) : Len(CommandNames[i]) <= n

\* '\n'.join(help_lines), from the i-th command on.
RECURSIVE help_lines(_)
help_lines(i) ==
    IF i > Len(CommandNames) THEN <<>>
    ELSE (IF i > 1 THEN <<"\n">> ELSE <<>>)
             \o <<prefix>> \o CommandNames[i]
             \o Spaces(longest_command - Len(CommandNames[i]) + 2)
             \o Description
             \o help_lines(i + 1)

\* The code fence that opens and closes the help text (three backquotes,
\* each written ~ here).
Fence == <<"~", "~", "~">>

\* show_help(game, message)
show_help == <<Fence \o help_lines(1) \o Fence>>

\* call_dealer(game, message)
call_dealer ==
    <<<<"W", "h", "a", "t", " ", "d", "o", " ", "y", "o", "u", " ",
        "w", "a", "n", "n", "a", " ", "d", "o", "?">>>>

\* The lines of up to MaxLineLen characters, a card letter or the delimiter.
RECURSIVE LinesOfLength(_)
LinesOfLength(n) ==
    IF n = 0 THEN {<<>>}
    ELSE {l \o <<c>> : l \in LinesOfLength(n - 1), c \in {"A", Delimiter}}
ShortLines == UNION {LinesOfLength(n) : n \in 0..MaxLineLen}

\* The responses a deal may return: one to MaxLines short lines.
DealResponses ==
    UNION {[1..n -> ShortLines] : n \in 1..MaxLines}

\* The responses whose delivery is checked, with the command they answer.
Deliveries ==
    {[command |-> "help", lines |-> show_help],
     [command |-> "dealer", lines |-> call_dealer]}
        \cup {[command |-> "deal", lines |-> m] : m \in DealResponses}

InitDeliver ==
    /\ games = [c \in {} |-> NewGameObject]
    /\ last = NoEvent
    /\ telling = [c \in Channels |-> 0]
    /\ msg \in Deliveries
    /\ sent = NoDelivery
    /\ picture = NoPicture

\* on_message delivers the lines the handler returned.
Deliver ==
    /\ ~sent.done
    /\ sent' = deliver(msg.lines)
    /\ UNCHANGED <<games, last, telling, msg, picture>>

NextDeliver == Deliver

SpecDeliver == InitDeliver /\ [][NextDeliver]_vars

\* ------------------------------------------- composition of the image
\* An image is known by its size, <<width, height>> (im.size).
\* sum(widths)
RECURSIVE sum(_)
sum(widths) ==
    IF widths = <<>> THEN 0 ELSE widths[1] + sum(Tail(widths))

\* max(heights)
RECURSIVE max(_)
max(heights) ==
    IF Len(heights) = 1 THEN heights[1]
    ELSE LET m == max(Tail(heights))
         IN  IF heights[1] >= m THEN heights[1] ELSE m

\* The loop over the images with a height in place of the width added to
\* the offset.
RECURSIVE paste_all_by_height(_, _)
paste_all_by_height(images, x_offset) ==
    IF images = <<>> THEN <<>>
    ELSE <<[at |-> <<x_offset, 0>>, size |-> images[1]]>>
             \o paste_all_by_height(Tail(images), x_offset + images[1][2])

\* for im in images: new_im.paste(im, (x_offset, 0)); x_offset += im.size[0]
RECURSIVE paste_all(_, _)
paste_all(images, x_offset) ==
    IF images = <<>> THEN <<>>
    ELSE <<[at |-> <<x_offset, 0>>, size |-> images[1]]>>
             \o paste_all(Tail(images), x_offset + images[1][1])

\* The image on_message composes of the opened card images: its size and
\* what is pasted where, in order.
compose(images) ==
    LET widths == [k \in 1..Len(images) |-> images[k][1]]
        heights == [k \in 1..Len(images) |-> images[k][2]]
        total_width == sum(widths)
        max_height == max(heights)
    IN  [done |-> TRUE, images |-> images,
         size |-> <<total_width, max_height>>,
         pastes |-> paste_all(images, 0)]

\* The sizes of a card image, and the non-empty lists of card images.
ImageSizes == (1..MaxSide) \X (1..MaxSide)
ImageLists == UNION {[1..n -> ImageSizes] : n \in 1..MaxCards}

\* The card images have been opened.
InitCompose ==
    /\ games = [c \in {} |-> NewGameObject]
    /\ last = NoEvent
    /\ telling = [c \in Channels |-> 0]
    /\ msg = NoMessage
    /\ sent = NoDelivery
    /\ \E images \in ImageLists :
        picture = [NoPicture EXCEPT !.images = images]

\* on_message composes the image it sends.
Compose ==
    /\ ~picture.done
    /\ picture' = compose(picture.images)
    /\ UNCHANGED <<games, last, telling, msg, sent>>

NextCompose == Compose

SpecCompose == InitCompose /\ [][NextCompose]_vars

\* ------------------------------------------------------------- claims
\* The channel's Game after the step.
GameOfNext(ch) == IF ch \in DOMAIN games' THEN games'[ch] ELSE NewGameObject

BettingCommands == {"call", "check", "raise", "fold", "all-in"}

\* C1: start moves a game from WAITING to NO_HANDS only if at least two
\* players have joined; with fewer than two players start is rejected and
\* the state stays WAITING.
C1_StartNeedsTwoPlayers ==
    \A ch \in DOMAIN games :
        (last.cmd = "start" /\ last.pre = "WAITING"
            /\ Len(games[ch].players) < 2)
        => (~last.ok /\ games[ch].state = "WAITING")

\* The (state, command) pairs in which the command does not apply.
Inapplicable(state, cmd) ==
    \/ cmd \in {"join", "start"} /\ state # "WAITING"
    \/ cmd = "deal" /\ state # "NO_HANDS"
    \/ cmd \in BettingCommands /\ state \in {"NO_GAME", "WAITING", "NO_HANDS"}
    \/ cmd = "newgame" /\ state # "NO_GAME"
    \/ cmd = "stop" /\ state = "NO_GAME"

\* C2: a command that does not apply to the current lifecycle state
\* returns at least one line and leaves every field of the Game (state,
\* players, dealer, current player, pot, cur_bet, options) unchanged.
C2_InapplicableCommandChangesNothing ==
    [][\A ch \in Channels :
        Inapplicable(GameOf(ch).state, last'.cmd)
        => (GameOfNext(ch) = GameOf(ch) /\ Len(last'.lines) >= 1 /\ ~last'.ok)]_vars

\* A deal was sent while the game was waiting for players, and refused.
C2_Witness ==
    /\ last.cmd = "deal" /\ last.pre = "WAITING" /\ ~last.ok
    /\ \E ch \in DOMAIN games : Len(games[ch].players) >= 2

\* The integer amounts a raise is tried with.
Amounts == (0 - 1)..(MaxStack + 1)

MaximumLines(lines) ==
    {i \in 1..Len(lines) : lines[i].text = "The most you can raise it by is"}

\* The rejection `lines` reports the maximum raise `m`, and the current
\* player u's raise of exactly m is accepted in game g.
ReportsAcceptedMaximum(g, u, lines, m) ==
    /\ MaximumLines(lines) # {}
    /\ \A i \in MaximumLines(lines) : lines[i].n = m
    /\ raise_bet(g, u, <<CmdToken, IntToken(m)>>).ok
    /\ raise_bet(g, u, <<CmdToken, IntToken(m)>>).g.cur_bet
           = g.players[g.current].max_bet

\* C4 (as stated): whenever a raise is rejected because table cur_bet +
\* amount exceeds the actor's stack, the rejection reports the maximum legal
\* raise, max_bet - table cur_bet, and a raise of that maximum is accepted.
\* (Stated for tables of at least two players, so that no run through a
\* game started by a single player counts against it.)
C4_AsStated ==
    [][\A ch \in Channels, u \in Users, n \in Amounts :
        LET g == GameOf(ch)
            stack == g.players[g.current].max_bet
        IN  (/\ last'.cmd = "raise"
             /\ g.state = "BETTING"
             /\ Len(g.players) >= 2
             /\ g.players[g.current].user = u
             /\ g.cur_bet + n > stack
             /\ Handle(ch, "raise", raise_bet(g, u, <<CmdToken, IntToken(n)>>)))
            => /\ ~last'.ok
               /\ GameOfNext(ch) = g
               /\ ReportsAcceptedMaximum(g, u, last'.lines, stack - g.cur_bet)]_vars

\* C4 (amended): when the actor's stack is larger than the table cur_bet, a
\* raise rejected because table cur_bet + amount exceeds the stack reports
\* the maximum legal raise, max_bet - table cur_bet, and a raise of exactly
\* that maximum is accepted; when the table cur_bet has reached the stack,
\* every raise is rejected and no maximum is reported.
C4_MaximumRaise ==
    [][\A ch \in Channels, u \in Users, n \in Amounts :
        LET g == GameOf(ch)
            stack == g.players[g.current].max_bet
        IN  (/\ last'.cmd = "raise"
             /\ g.state = "BETTING"
             /\ g.players[g.current].user = u
             /\ g.cur_bet + n > stack \/ g.cur_bet >= stack
             /\ Handle(ch, "raise", raise_bet(g, u, <<CmdToken, IntToken(n)>>)))
            => /\ ~last'.ok
               /\ GameOfNext(ch) = g
               /\ IF g.cur_bet < stack
                  THEN ReportsAcceptedMaximum(g, u, last'.lines, stack - g.cur_bet)
                  ELSE MaximumLines(last'.lines) = {}]_vars

\* A raise beyond the stack was refused with a maximum, the table's bet
\* being positive and below the current player's stack.
C4_Witness ==
    /\ last.cmd = "raise" /\ last.pre = "BETTING" /\ ~last.ok
    /\ MaximumLines(last.lines) # {}
    /\ \E ch \in DOMAIN games :
        /\ games[ch].state = "BETTING"
        /\ Len(games[ch].players) >= 2
        /\ games[ch].cur_bet > 0
        /\ games[ch].cur_bet < games[ch].players[games[ch].current].max_bet

\* C5: in NO_HANDS only the dealer can deal: a deal from anyone else is
\* rejected and leaves the state NO_HANDS with no cards dealt, while a deal
\* from the dealer hands two cards to each player and moves to BETTING.
C5_OnlyDealerDeals ==
    [][\A ch \in Channels, u \in Users :
        LET g == GameOf(ch)
            h == GameOfNext(ch)
        IN  (last'.cmd = "deal" /\ g.state = "NO_HANDS" /\ DealHand(ch, u))
            => IF g.players[g.dealer].user = u
               THEN /\ last'.ok
                    /\ h.state = "BETTING"
                    /\ Len(h.players) = Len(g.players)
                    /\ \A i \in Seats(h) : Cardinality(h.players[i].hand) = 2
               ELSE /\ ~last'.ok
                    /\ h = g
                    /\ h.state = "NO_HANDS"
                    /\ \A i \in Seats(h) : h.players[i].hand = {}]_vars

\* A player who is not the dealer asked for the deal and was refused.
C5_Witness ==
    /\ last.cmd = "deal" /\ last.pre = "NO_HANDS" /\ ~last.ok
    /\ \E ch \in DOMAIN games :
        /\ games[ch].state = "NO_HANDS"
        /\ Len(games[ch].players) >= 2

\* Some betting command of user u is handled in this step.
BettingStep(ch, u) ==
    \/ CallBet(ch, u)
    \/ Check(ch, u)
    \/ RaiseBet(ch, u)
    \/ FoldHand(ch, u)
    \/ AllIn(ch, u)

\* C6: during betting, a call, check, raise, fold or all-in from anyone who
\* is not the current player (a player out of turn, or a non-player) is
\* rejected with at least one line and changes nothing in the Game.
C6_OutOfTurnChangesNothing ==
    [][\A ch \in Channels, u \in Users :
        LET g == GameOf(ch)
        IN  (/\ last'.cmd \in BettingCommands
             /\ g.state = "BETTING"
             /\ g.players[g.current].user # u
             /\ BettingStep(ch, u))
            => /\ ~last'.ok
               /\ ~last'.fwd
               /\ Len(last'.lines) >= 1
               /\ GameOfNext(ch) = g]_vars

\* A player folded out of turn at a table of two and was told whose turn
\* it is.
C6_Witness ==
    /\ last.cmd = "fold" /\ last.pre = "BETTING" /\ ~last.ok
    /\ last.lines[1].text = "It's someone else's turn"
    /\ \E ch \in DOMAIN games :
        /\ games[ch].state = "BETTING"
        /\ Len(games[ch].players) >= 2

\* C7: a betting action (call, check, raise, fold, all-in) is applied only
\* when the game state is BETTING; in every other state, SHOWDOWN included,
\* it is rejected and not forwarded to the engine.  (Stated for tables of at
\* least two players.)
C7_BettingOnlyInBetting ==
    \A ch \in DOMAIN games :
        (/\ last.cmd \in BettingCommands
         /\ last.pre # "BETTING"
         /\ Len(games[ch].players) >= 2)
        => (~last.ok /\ ~last.fwd)

\* C8: newgame takes effect only in NO_GAME, and then leaves the game in
\* WAITING with the requester as the first seat; in any other state it is
\* rejected and the game's state and roster are unchanged.
C8_NewGameOnlyInNoGame ==
    [][\A ch \in Channels, u \in Users :
        LET g == GameOf(ch)
            h == GameOfNext(ch)
        IN  (last'.cmd = "newgame" /\ NewGame(ch, u))
            => IF g.state = "NO_GAME"
               THEN /\ last'.ok
                    /\ h.state = "WAITING"
                    /\ Len(h.players) >= 1
                    /\ h.players[1].user = u
               ELSE /\ ~last'.ok
                    /\ Len(last'.lines) >= 1
                    /\ h.state = g.state
                    /\ h.players = g.players]_vars

\* A newgame was refused while a hand was being played by two players.
C8_Witness ==
    /\ last.cmd = "newgame" /\ last.pre = "BETTING" /\ ~last.ok
    /\ \E ch \in DOMAIN games :
        /\ games[ch].state = "BETTING"
        /\ Len(games[ch].players) >= 2

\* No identity sits twice in the roster.
DistinctPlayers(g) ==
    \A i, j \in Seats(g) : g.players[i].user = g.players[j].user => i = j

\* C9: join adds the requester to the roster only when the state is WAITING
\* and the requester is not already a player; a second join by the same
\* player is reported as an error and changes neither roster nor state, and
\* the roster holds each identity at most once.
C9_JoinOnce ==
    [][\A ch \in Channels, u \in Users :
        LET g == GameOf(ch)
            h == GameOfNext(ch)
        IN  (last'.cmd = "join" /\ JoinGame(ch, u))
            => /\ IF g.state = "WAITING" /\ ~Game_is_player(g, u)
                  THEN /\ last'.ok
                       /\ Len(h.players) = Len(g.players) + 1
                       /\ h.players[Len(h.players)].user = u
                       /\ \A i \in Seats(g) : h.players[i] = g.players[i]
                       /\ h.state = g.state
                  ELSE /\ ~last'.ok
                       /\ Len(last'.lines) >= 1
                       /\ h = g
               /\ DistinctPlayers(g) => DistinctPlayers(h)]_vars

\* A player who already sits at the table joined again and was told so.
C9_Witness ==
    /\ last.cmd = "join" /\ last.pre = "WAITING" /\ ~last.ok
    /\ last.lines[1].text = "You've already joined the game"
    /\ \E ch \in DOMAIN games : Len(games[ch].players) >= 2

\* C10: from WAITING, NO_HANDS, BETTING and SHOWDOWN a stop moves the game
\* directly to NO_GAME, whoever sends it; a stop in NO_GAME is rejected and
\* changes nothing.
C10_StopFromAnyState ==
    [][\A ch \in Channels, u \in Users :
        LET g == GameOf(ch)
            h == GameOfNext(ch)
        IN  (last'.cmd = "stop" /\ StopGame(ch, u))
            => IF g.state # "NO_GAME"
               THEN last'.ok /\ h.state = "NO_GAME"
               ELSE ~last'.ok /\ Len(last'.lines) >= 1 /\ h = g]_vars

\* A stop ended a game that had reached its showdown.
C10_Witness ==
    /\ last.cmd = "stop" /\ last.pre = "SHOWDOWN" /\ last.ok
    /\ \E ch \in DOMAIN games :
        /\ games[ch].state = "NO_GAME"
        /\ Len(games[ch].players) >= 2

\* The steps of the lifecycle, in order.
Lifecycle ==
    {<<"NO_GAME", "WAITING">>, <<"WAITING", "NO_HANDS">>,
     <<"NO_HANDS", "BETTING">>, <<"BETTING", "SHOWDOWN">>,
     <<"SHOWDOWN", "NO_GAME">>}

\* C11: the game state changes only along the lifecycle NO_GAME -> WAITING
\* -> NO_HANDS -> BETTING -> SHOWDOWN -> NO_GAME, or by a stop from a state
\* other than NO_GAME to NO_GAME; no step makes any other transition.
C11_LifecycleOnly ==
    [][\A ch \in Channels :
        LET a == GameOf(ch).state
            b == GameOfNext(ch).state
        IN  \/ a = b
            \/ <<a, b>> \in Lifecycle
            \/ last'.cmd = "stop" /\ a # "NO_GAME" /\ b = "NO_GAME"]_vars

\* A hand of two players ran the whole lifecycle: its showdown has just
\* returned the game to NO_GAME.
C11_Witness ==
    /\ last.cmd = "showdown" /\ last.pre = "SHOWDOWN"
    /\ \E ch \in DOMAIN games : games[ch].state = "NO_GAME"
    /\ Len(last.lines) = 1

\* C12: whenever a game is in NO_GAME its roster is empty, after a stop
\* too.
C12_NoGameRosterEmpty ==
    \A ch \in DOMAIN games :
        games[ch].state = "NO_GAME" => games[ch].players = <<>>

\* The money of the table: the pot, the table's bet, and each player's bet
\* and stack.
Money(g) ==
    [pot |-> g.pot, cur_bet |-> g.cur_bet,
     bets |-> [i \in Seats(g) |-> g.players[i].cur_bet],
     stacks |-> [i \in Seats(g) |-> g.players[i].max_bet]]

\* C13: a check by the current player is accepted only if the actor's
\* cur_bet equals the table cur_bet; otherwise it is rejected, the turn does
\* not advance and pot and bets are unchanged; an accepted check changes no
\* monetary field.
C13_CheckNeedsMatchedBet ==
    [][\A ch \in Channels, u \in Users :
        LET g == GameOf(ch)
            h == GameOfNext(ch)
        IN  (/\ last'.cmd = "check"
             /\ g.state = "BETTING"
             /\ g.players[g.current].user = u
             /\ Check(ch, u))
            => /\ last'.ok <=> g.players[g.current].cur_bet = g.cur_bet
               /\ Money(h) = Money(g)
               /\ ~last'.ok => /\ h = g
                               /\ Len(last'.lines) >= 1
               /\ last'.ok => \/ h.state = "SHOWDOWN"
                              \/ h.current # g.current]_vars

\* A check was accepted at a table of two and the turn moved on, the
\* betting still open.
C13_Witness ==
    /\ last.cmd = "check" /\ last.pre = "BETTING" /\ last.ok
    /\ \E ch \in DOMAIN games :
        /\ games[ch].state = "BETTING"
        /\ Len(games[ch].players) >= 2

\* The arguments of a set that name an option and a non-negative integer.
ValidSetArgs(args) ==
    /\ Len(args) >= 2
    /\ \E o \in GAME_OPTIONS : args[1] = <<o>>
    /\ IsIntToken(args[2])
    /\ args[2][1] # "-" \/ \A i \in 2..Len(args[2]) : args[2][i] = "0"

\* C14: a set changes the options only when the option exists and the
\* value is a non-negative integer, and then changes exactly that option; a
\* missing argument, an unknown option, a non-integer or a negative value
\* is rejected with a line and leaves the options and every other field of
\* the Game unchanged.  (Stated of the handler's outcome in every state the
\* game reaches, for every sender and every argument list.)
C14_SetOptionValidated ==
    \A ch \in Channels, u \in Users, args \in SetArgs :
        LET g == GameOf(ch)
            r == set_option(g, u, <<CmdToken>> \o args)
            h == r.g
        IN  /\ r.ok <=> ValidSetArgs(args)
            /\ ~r.ok => /\ h = g
                        /\ Len(r.lines) >= 1
            /\ r.ok =>
                 \E o \in GAME_OPTIONS :
                     /\ args[1] = <<o>>
                     /\ h.options[o] >= 0
                     /\ IntToken(h.options[o]) = args[2]
                     /\ h = [g EXCEPT !.options[o] = h.options[o]]

\* A set with a negative value was refused during a hand of two players.
C14_Witness ==
    /\ last.cmd = "set" /\ ~last.ok
    /\ last.lines[1].text = "Cannot set to a negative value!"
    /\ \E ch \in DOMAIN games :
        /\ games[ch].state = "BETTING"
        /\ Len(games[ch].players) >= 2

\* C15: one event is handled to completion before the next begins: while
\* an on_message is still telling the players their hands after a deal, no
\* other handler changes the channel's Game that it reads.  (Stated for
\* tables of at least two players.)
C15_HandledToCompletion ==
    [][\A ch \in Channels :
        (telling[ch] > 0 /\ Len(GameOf(ch).players) >= 2)
        => GameOfNext(ch) = GameOf(ch)]_vars

\* C16: for every command other than deal, every line the handler
\* produced is delivered to the channel as text: no line is removed and no
\* image step runs.
C16_LinesDeliveredAsText ==
    (sent.done /\ msg.command # "deal")
    => (sent.lines = msg.lines /\ ~sent.image)

\* C17: an unknown command token produces the fixed rejection line and has
\* no other effect: no handler runs, no Game is created for the channel and
\* no existing Game is changed.
C17_UnknownCommandNoEffect ==
    [][last'.cmd = "bogus"
        => /\ games' = games
           /\ DOMAIN games' = DOMAIN games
           /\ last'.lines = <<Line("is not a valid command.")>>
           /\ ~last'.fwd /\ ~last'.ok]_vars

\* An unknown command was answered on a channel that has no Game, and none
\* was created.
C17_Witness ==
    /\ last.cmd = "bogus"
    /\ last.lines = <<Line("is not a valid command.")>>
    /\ DOMAIN games = {}

\* The bets of the seats 1..n of game g added up.
RECURSIVE SumBets(_, _)
SumBets(g, n) ==
    IF n = 0 THEN 0 ELSE SumBets(g, n - 1) + g.players[n].cur_bet

\* C18: after any sequence of accepted call, raise and all-in actions
\* within one betting round, the pot equals the sum of all players' cur_bet.
C18_PotConservation ==
    \A ch \in DOMAIN games :
        games[ch].state \in {"BETTING", "SHOWDOWN"}
        => games[ch].pot = SumBets(games[ch], Len(games[ch].players))

\* A player who had bet before has called a raise: the call to 2 is
\* accepted, the betting still open, and the pot holds 5.
C18_Witness ==
    /\ last.cmd = "call" /\ last.pre = "BETTING" /\ last.ok
    /\ last.lines[1].n = 2
    /\ \E ch \in DOMAIN games :
        /\ games[ch].state = "BETTING"
        /\ \A i \in Seats(games[ch]) : games[ch].players[i].cur_bet > 0
        /\ games[ch].pot = 5

\* C19: while a betting round is in progress with at least two eligible
\* players, the current player is never a folded or all-in player.
C19_CurrentPlayerEligible ==
    \A ch \in DOMAIN games :
        (games[ch].state = "BETTING" /\ Cardinality(Eligible(games[ch])) >= 2)
        => games[ch].current \in Eligible(games[ch])

\* The turn has passed over a player who cannot act: a raise was accepted,
\* nobody is all-in, and the seat before the current one has folded, so it
\* is not the raiser's.
C19_Witness ==
    /\ last.cmd = "raise" /\ last.pre = "BETTING" /\ last.ok
    /\ \E ch \in DOMAIN games :
        LET g == games[ch]
            n == Len(g.players)
        IN  /\ g.state = "BETTING"
            /\ n = 3
            /\ Cardinality(Eligible(g)) = 2
            /\ \A i \in Seats(g) : ~g.players[i].all_in
            /\ g.current \in Eligible(g)
            /\ g.players[((g.current + n - 2) % n) + 1].folded

\* The scan of the claim: the index of the first line that holds the
\* delimiter, followed by the delimiter's positions in that line.
RECURSIVE FirstLineScan(_, _)
FirstLineScan(messages, k) ==
    IF k > Len(messages) THEN <<>>
    ELSE IF Positions(messages[k]) # <<>>
    THEN <<k - 1>> \o Positions(messages[k])
    ELSE FirstLineScan(messages, k + 1)

\* C20: the card-location scan uses only the first line that holds the
\* delimiter: the result is that line's index followed by every delimiter
\* position in that line; delimiters in later lines contribute nothing, and
\* the result is empty iff no line holds the delimiter.
C20_FirstLineOnly ==
    sent.done
    => /\ sent.locates = FirstLineScan(msg.lines, 1)
       /\ sent.locates = <<>>
            <=> \A k \in 1..Len(msg.lines) : Delimiter \notin
                    {msg.lines[k][i] : i \in 1..Len(msg.lines[k])}

\* w1 + ... + wk of the images.
RECURSIVE WidthUpTo(_, _)
WidthUpTo(images, k) ==
    IF k = 0 THEN 0 ELSE WidthUpTo(images, k - 1) + images[k][1]

\* C21: for a non-empty list of card images with widths w1..wn and heights
\* h1..hn, the composed image is as wide as the widths added up and as high
\* as the highest image; image k is pasted at y = 0 and x = w1 + ... +
\* w(k-1), so the images appear in order and none overlaps another.
C21_CompositionLaw ==
    picture.done =>
        LET images == picture.images
            n == Len(images)
        IN  /\ picture.size[1] = WidthUpTo(images, n)
            /\ \A k \in 1..n : images[k][2] <= picture.size[2]
            /\ \E k \in 1..n : images[k][2] = picture.size[2]
            /\ Len(picture.pastes) = n
            /\ \A k \in 1..n :
                /\ picture.pastes[k].size = images[k]
                /\ picture.pastes[k].at = <<WidthUpTo(images, k - 1), 0>>
            /\ \A j, k \in 1..n :
                j < k => picture.pastes[j].at[1] + images[j][1]
                            <= picture.pastes[k].at[1]

\* Three images of different widths and heights have been composed, the
\* last one pasted to the right of the first two.
C21_Witness ==
    /\ picture.done
    /\ Len(picture.images) = 3
    /\ picture.images[1][1] # picture.images[1][2]
    /\ picture.images[1][1] # picture.images[2][1]
    /\ picture.images[1][2] < picture.images[2][2]
    /\ picture.pastes[3].at[1] = picture.images[1][1] + picture.images[2][1]
    /\ picture.size[2] > picture.images[3][2]
====
